---- MODULE Spec2Model ----
(***************************************************************************)
(* Model of protocol/validation/block.go: ValidateBlockHeader and          *)
(* ValidateBlock, the block-acceptance gate.  One run of ValidateBlock is  *)
(* a sequence of stage actions (header, proposer, transaction loop,        *)
(* coinbase, transaction-id merkle root, status merkle root).              *)
(***************************************************************************)
EXTENDS Integers, Sequences, FiniteSets, TLC

(***************************************************************************)
(* uint64 arithmetic.  A uint64 is four 16-bit limbs, least significant    *)
(* first, so that values up to 2^64-1 and Go's wrap-around are exact.      *)
(***************************************************************************)
Limb == 2^16

U64(n) == <<n % Limb, (n \div Limb) % Limb, 0, 0>>

MaxUint64 == <<Limb - 1, Limb - 1, Limb - 1, Limb - 1>>

\* the carries of a limb-wise addition of a and b (a may have 5 limbs)
Carry(a, b, k) ==
    LET c1 == (a[1] + b[1]) \div Limb
        c2 == (a[2] + b[2] + c1) \div Limb
        c3 == (a[3] + b[3] + c2) \div Limb
        c4 == (a[4] + b[4] + c3) \div Limb
    IN  <<0, c1, c2, c3, c4>>[k]

\* Go's a + b on uint64: the carry out of bit 63 is dropped
Add64(a, b) ==
    [k \in 1..4 |-> (a[k] + b[k] + Carry(a, b, k)) % Limb]

\* a > b on uint64
Gt64(a, b) ==
    \E k \in 1..4 : a[k] > b[k] /\ \A j \in (k + 1)..4 : a[j] = b[j]

\* the mathematical sum of a five-limb integer and a uint64 (nothing dropped)
AddWide(w, a) ==
    [k \in 1..5 |-> IF k < 5 THEN (w[k] + a[k] + Carry(w, a, k)) % Limb
                             ELSE w[5] + Carry(w, a, 5)]

Wide(a) == <<a[1], a[2], a[3], a[4], 0>>

(***************************************************************************)
(* Errors.  Every error value is a record of the same shape: the root      *)
(* error, the attached detail/context message and, for a wrapped           *)
(* transaction failure, the index and the transaction count.               *)
(***************************************************************************)
Err(kind, detail, idx, total) ==
    [kind |-> kind, detail |-> detail, idx |-> idx, total |-> total]

Nil == Err("nil", "", -1, -1)

errBadTimestamp == Err("errBadTimestamp", "", -1, -1)

errBadBits == Err("errBadBits", "", -1, -1)

errMismatchedBlock == Err("errMismatchedBlock", "", -1, -1)

errMismatchedMerkleRoot(tag) == Err("errMismatchedMerkleRoot", tag, -1, -1)

errMisorderedBlockHeight == Err("errMisorderedBlockHeight", "", -1, -1)

errOverBlockLimit == Err("errOverBlockLimit", "", -1, -1)

errVersionRegression == Err("errVersionRegression", "", -1, -1)

ErrWrongCoinbaseTransaction(msg) == Err("ErrWrongCoinbaseTransaction", msg, -1, -1)

errSignature == Err("Verification signature failed", "", -1, -1)

\* the error of tx.Output when the first result is not an output entry
errOutputEntry == Err("tx.Output", "", -1, -1)

\* errors.Wrapf(err, "validate of transaction %d of %d", i, n): the bytom
\* errors package adds context to an error and returns nil when err is nil
Wrapf(err, idx, total) ==
    IF err = "nil" THEN Nil ELSE Err(err, "validate of transaction", idx, total)

(***************************************************************************)
(* Consensus parameters and external collaborators.                        *)
(***************************************************************************)
MaxTxs == 2

MaxTimeOffsetSeconds == 3600

MaxBlockGas == U64(10000000)

\* consensus.BlockSubsidy: the reward schedule (constant over the heights used)
BlockSubsidy(height) == <<22656, 39603, 9, 0>>

\* types.TxMerkleRoot: a collision-free commitment to the ordered id list
TxMerkleRoot(txs) == [k \in 1..Len(txs) |-> txs[k].id]

\* types.TxStatusMerkleRoot: a collision-free commitment to the status list
TxStatusMerkleRoot(status) == [k \in 1..Len(status) |-> IF status[k] THEN 1 ELSE 0]

BadHash == <<-1>>

(***************************************************************************)
(* Keys, hex strings and signatures.  A string is a sequence of           *)
(* characters: 0..15 stand for the hex digits, 16 for a non-hex character. *)
(***************************************************************************)
XPubSize == 64

\* a character that is no hex digit
NonHexChar == 15 + 1

\* hex.EncodeToString
EncodeToString(bytes) ==
    [k \in 1..(2 * Len(bytes)) |->
        IF k % 2 = 1 THEN bytes[(k + 1) \div 2] \div 16 ELSE bytes[k \div 2] % 16]

\* the error of hex.DecodeString: an invalid character is reported before a
\* bad (odd) length
DecodeError(s) ==
    IF \E k \in 1..Len(s) : s[k] = NonHexChar THEN "hex.InvalidByteError"
    ELSE IF Len(s) % 2 = 1 THEN "hex.ErrLength"
    ELSE "nil"

\* the bytes of hex.DecodeString for a string it accepts
DecodeString(s) ==
    [k \in 1..(Len(s) \div 2) |-> s[2 * k - 1] * 16 + s[2 * k]]

\* var xpub chainkd.XPub; copy(xpub[:], tmp[:])
CopyXPub(tmp) ==
    [k \in 1..XPubSize |-> IF k <= Len(tmp) THEN tmp[k] ELSE 0]

ZeroXPub == [k \in 1..XPubSize |-> 0]

KeyA == [k \in 1..XPubSize |-> 7]

ShortKey == <<10, 11>>

\* Go map lookup: the zero value "" for a missing key
Lookup(m, key) == IF key \in DOMAIN m THEN m[key] ELSE <<>>

\* block.MarshalText(): the canonical text of the types.Block
MarshalText(blk) == <<blk.Height, blk.Timestamp>> \o blk.TxIds

\* xpub.Verify(msg, sign): an unforgeable signature scheme; a signature
\* names the key and message it was made for and whether a byte was flipped
Verify(xpub, msg, sign) ==
    sign.key = xpub /\ sign.msg = msg /\ ~sign.flipped

(***************************************************************************)
(* The inputs.  ValidateTx is external: its GasState and error are a fixed *)
(* function of the transaction, carried in the transaction record.         *)
(*   GasValid, err        gasStatus.GasValid and the error of ValidateTx   *)
(*   GasUsed, BTMValue    gasStatus.GasUsed (>= 0) and gasStatus.BTMValue  *)
(*   out                  tx.Output of the first result id: ok, amount      *)
(***************************************************************************)
Tx(id, valid, err, gas, fee, outOk, amount) ==
    [id |-> id, GasValid |-> valid, err |-> err, GasUsed |-> gas,
     BTMValue |-> fee, out |-> [ok |-> outOk, amount |-> amount]]

\* state.BlockNode of the parent, with the values of CalcNextBits() and
\* CalcPastMedianTime()
Parent ==
    [Version |-> 2, Height |-> 1, Hash |-> "parentHash",
     NextBits |-> "bits", PastMedianTime |-> 10]

\* the subsidy at the only height the header check lets through
Subsidy == BlockSubsidy(Parent.Height + 1)

TxKinds ==
    { Tx(1, TRUE, "nil", U64(0), U64(0), TRUE, Subsidy),
      Tx(2, TRUE, "nil", U64(0), U64(0), TRUE, Add64(Subsidy, U64(1))),
      Tx(3, TRUE, "nil", U64(1), U64(1), TRUE, Add64(Subsidy, U64(1))),
      Tx(4, TRUE, "ErrTx", U64(1), U64(1), TRUE, Subsidy),
      Tx(5, FALSE, "ErrTx", U64(0), U64(0), TRUE, Subsidy),
      Tx(6, FALSE, "nil", U64(0), U64(0), TRUE, Subsidy),
      Tx(7, TRUE, "nil", MaxBlockGas, U64(0), TRUE, Subsidy),
      Tx(8, TRUE, "nil", Add64(MaxBlockGas, U64(1)), U64(0), FALSE, U64(0)),
      Tx(9, TRUE, "nil", U64(0), MaxUint64, TRUE, Subsidy) }

TxLists == UNION { [1..n -> TxKinds] : n \in 0..MaxTxs }

\* the status list a complete transaction loop records for txs
StatusOf(txs) == [k \in 1..Len(txs) |-> txs[k].err # "nil"]

\* time.Now().Unix() at the call
Clock == 20

\* the authority registry: control program -> hex-encoded xpub
Authoritys ==
    ("cpA" :> EncodeToString(KeyA)) @@
    ("cpOdd" :> <<7, 7, 7>>) @@
    ("cpNonHex" :> <<7, NonHexChar>>) @@
    ("cpShort" :> EncodeToString(ShortKey))

ControlPrograms == DOMAIN Authoritys \cup {"cpNone"}

Header(version, height, bits, prev, ts) ==
    [Version |-> version, Height |-> height, Bits |-> bits,
     PreviousBlockId |-> prev, Timestamp |-> ts]

Headers ==
    { Header(v, h, bi, pr, ts) :
        v \in {Parent.Version - 1, Parent.Version, Parent.Version + 1},
        h \in {Parent.Height, Parent.Height + 1, Parent.Height + 2},
        bi \in {Parent.NextBits, "otherBits"},
        pr \in {Parent.Hash, "otherHash"},
        ts \in {Parent.PastMedianTime, Parent.PastMedianTime + 1,
                Clock + MaxTimeOffsetSeconds, Clock + MaxTimeOffsetSeconds + 1} }

GoodHeader ==
    Header(Parent.Version, Parent.Height + 1, Parent.NextBits, Parent.Hash,
           Parent.PastMedianTime + 1)

\* the types.Block handed to ValidateBlock beside the bc.Block
TypesBlock(hdr, txs) ==
    [Height |-> hdr.Height, Timestamp |-> hdr.Timestamp, TxIds |-> TxMerkleRoot(txs)]

Signature(key, msg, flipped) == [key |-> key, msg |-> msg, flipped |-> flipped]

\* the signatures a proof may carry for a block with canonical text msg
Signs(msg) ==
    { Signature(k, msg, f) : k \in {KeyA, ZeroXPub, CopyXPub(ShortKey)}, f \in BOOLEAN }

GoodProof(msg) == [ControlProgram |-> "cpA", Sign |-> Signature(KeyA, msg, FALSE)]

Proofs(msg) == { [ControlProgram |-> cp, Sign |-> sg] : cp \in ControlPrograms, sg \in Signs(msg) }

Roots(txs) ==
    { [TransactionsRoot |-> tr, TransactionStatusHash |-> sr] :
        tr \in {TxMerkleRoot(txs), BadHash},
        sr \in {TxStatusMerkleRoot(StatusOf(txs)),
                TxStatusMerkleRoot([k \in 1..Len(txs) |-> FALSE]), BadHash} }

GoodTxs == << Tx(1, TRUE, "nil", U64(0), U64(0), TRUE, Subsidy) >>

NilStatus == [isNil |-> TRUE, VerifyStatus |-> <<>>]

\* bc.Block: header, proof, commitments, transactions, attached status
Block(hdr, proof, roots, txs) ==
    [Version |-> hdr.Version, Height |-> hdr.Height, Bits |-> hdr.Bits,
     PreviousBlockId |-> hdr.PreviousBlockId, Timestamp |-> hdr.Timestamp,
     Proof |-> proof,
     TransactionsRoot |-> roots.TransactionsRoot,
     TransactionStatusHash |-> roots.TransactionStatusHash,
     Transactions |-> txs,
     TransactionStatus |-> NilStatus]

GoodRoots(txs) ==
    [TransactionsRoot |-> TxMerkleRoot(txs),
     TransactionStatusHash |-> TxStatusMerkleRoot(StatusOf(txs))]

\* The candidate blocks: every header with a sound remainder, every proof
\* under a sound header, and every transaction list and pair of commitments
\* under a sound header and proof.
Blocks ==
    { Block(h, GoodProof(MarshalText(TypesBlock(h, GoodTxs))), GoodRoots(GoodTxs), GoodTxs) :
        h \in Headers }
    \cup
    { Block(GoodHeader, p, GoodRoots(GoodTxs), GoodTxs) :
        p \in Proofs(MarshalText(TypesBlock(GoodHeader, GoodTxs))) }
    \cup
    UNION { { Block(GoodHeader, GoodProof(MarshalText(TypesBlock(GoodHeader, txs))), r, txs) :
                r \in Roots(txs) } : txs \in TxLists }

\* a parent further up the chain, and the candidates that follow it: a
\* header at the parent's height, the next one or the one after, at most one
\* transaction, every pair of commitments, a signature that verifies or not
Parent100 == [Parent EXCEPT !.Height = 100]

Headers101 ==
    { Header(Parent100.Version, h, Parent100.NextBits, Parent100.Hash,
             Parent100.PastMedianTime + 1) :
        h \in {Parent100.Height, Parent100.Height + 1, Parent100.Height + 2} }

Blocks101 ==
    UNION { { Block(h, [ControlProgram |-> "cpA",
                        Sign |-> Signature(KeyA, MarshalText(TypesBlock(h, txs)), f)], r, txs) :
                h \in Headers101, r \in Roots(txs), f \in BOOLEAN } :
            txs \in UNION { [1..n -> TxKinds] : n \in 0..1 } }

(***************************************************************************)
(* State of one ValidateBlock(b, parent, block, authoritys, position) run. *)
(*   pc          the stage about to execute, "done" after the return       *)
(*   result      the returned error (Nil is success) once pc = "done"      *)
(*   headerErr   what ValidateBlockHeader(b, parent) returned              *)
(*   i, blockGasSum, coinbaseAmount   the locals of the transaction loop   *)
(*   validated   the indices handed to ValidateTx, in call order           *)
(*   verified    the keys xpub.Verify was called with                      *)
(*   ran         the stages that have executed                             *)
(*   permuted    the block is an accepted block with its transactions      *)
(*               reordered, submitted again under the same header          *)
(*   rerun       the run repeats a finished run on the same inputs         *)
(*   firstResult the result of the run that a rerun repeats                *)
(*   prior       b.TransactionStatus as it was when the run was entered    *)
(* Two calls may be in progress at once, on different blocks, with the     *)
(* same parent and registry.  The variables above that belong to a call    *)
(* (b, block, pc, result, headerErr, the locals, validated, verified, ran, *)
(* prior) are those of the call that is running:                           *)
(*   self        the call that is running, 1 or 2                          *)
(*   other       the same variables of the call that is not running        *)
(***************************************************************************)
VARIABLES b, parent, block, authoritys, now, pc, result, headerErr,
          i, blockGasSum, coinbaseAmount, validated, verified, ran, permuted,
          rerun, firstResult, prior, self, other

vars == <<b, parent, block, authoritys, now, pc, result, headerErr,
          i, blockGasSum, coinbaseAmount, validated, verified, ran, permuted,
          rerun, firstResult, prior, self, other>>

inputs == <<parent, block, authoritys, now, permuted, rerun, firstResult, prior, self, other>>

locals == <<i, blockGasSum, coinbaseAmount>>

\* the variables of a call at its entry
StartCall(blk) ==
    [b |-> blk, block |-> TypesBlock(blk, blk.Transactions), pc |-> "header",
     result |-> Nil, headerErr |-> Nil, i |-> 0, blockGasSum |-> U64(0),
     coinbaseAmount |-> U64(0), validated |-> <<>>, verified |-> <<>>, ran |-> {},
     prior |-> blk.TransactionStatus]

\* no second call
NoCall == [StartCall(Block(GoodHeader, GoodProof(<<>>), GoodRoots(<<>>), <<>>)) EXCEPT !.pc = "none"]

Init ==
    /\ self = 1
    /\ other = NoCall
    /\ \/ parent = Parent /\ b \in Blocks
       \/ parent = Parent100 /\ b \in Blocks101
    /\ block = TypesBlock(b, b.Transactions)
    /\ authoritys = Authoritys
    /\ now = Clock
    /\ pc = "header"
    /\ result = Nil
    /\ headerErr = Nil
    /\ i = 0
    /\ blockGasSum = U64(0)
    /\ coinbaseAmount = U64(0)
    /\ validated = <<>>
    /\ verified = <<>>
    /\ ran = {}
    /\ permuted = FALSE
    /\ rerun = FALSE
    /\ firstResult = Nil
    /\ prior = b.TransactionStatus

(***************************************************************************)
(* The functions of block.go.                                              *)
(***************************************************************************)
\* the past-median test with < for <=
checkBlockTimeStrictPast(blk, par, clock) ==
    IF blk.Timestamp > clock + MaxTimeOffsetSeconds THEN errBadTimestamp
    ELSE IF blk.Timestamp < par.PastMedianTime THEN errBadTimestamp
    ELSE Nil

\* the future-drift test with >= for >
checkBlockTimeInclusiveDrift(blk, par, clock) ==
    IF blk.Timestamp >= clock + MaxTimeOffsetSeconds THEN errBadTimestamp
    ELSE IF blk.Timestamp <= par.PastMedianTime THEN errBadTimestamp
    ELSE Nil

checkBlockTime(blk, par, clock) ==
    IF blk.Timestamp > clock + MaxTimeOffsetSeconds THEN errBadTimestamp
    ELSE IF blk.Timestamp <= par.PastMedianTime THEN errBadTimestamp
    ELSE Nil

\* the coinbase check without the test for an empty block
checkCoinbaseAmountEmptyAllowed(blk, amount) ==
    IF Len(blk.Transactions) = 0 THEN Nil
    ELSE IF ~blk.Transactions[1].out.ok THEN errOutputEntry
    ELSE IF blk.Transactions[1].out.amount # amount
         THEN ErrWrongCoinbaseTransaction("dismatch output amount")
    ELSE Nil

checkCoinbaseAmount(blk, amount) ==
    IF Len(blk.Transactions) = 0 THEN ErrWrongCoinbaseTransaction("block is empty")
    ELSE IF ~blk.Transactions[1].out.ok THEN errOutputEntry
    ELSE IF blk.Transactions[1].out.amount # amount
         THEN ErrWrongCoinbaseTransaction("dismatch output amount")
    ELSE Nil

\* the height check placed before the version check
ValidateBlockHeaderHeightFirst(blk, par, clock) ==
    IF blk.Height # par.Height + 1 THEN errMisorderedBlockHeight
    ELSE IF blk.Version < par.Version THEN errVersionRegression
    ELSE IF blk.Bits # par.NextBits THEN errBadBits
    ELSE IF par.Hash # blk.PreviousBlockId THEN errMismatchedBlock
    ELSE checkBlockTime(blk, par, clock)

\* the bits check placed before the height check
ValidateBlockHeaderBitsFirst(blk, par, clock) ==
    IF blk.Version < par.Version THEN errVersionRegression
    ELSE IF blk.Bits # par.NextBits THEN errBadBits
    ELSE IF blk.Height # par.Height + 1 THEN errMisorderedBlockHeight
    ELSE IF par.Hash # blk.PreviousBlockId THEN errMismatchedBlock
    ELSE checkBlockTime(blk, par, clock)

\* the previous-block-id check placed before the bits check
ValidateBlockHeaderPreviousFirst(blk, par, clock) ==
    IF blk.Version < par.Version THEN errVersionRegression
    ELSE IF blk.Height # par.Height + 1 THEN errMisorderedBlockHeight
    ELSE IF par.Hash # blk.PreviousBlockId THEN errMismatchedBlock
    ELSE IF blk.Bits # par.NextBits THEN errBadBits
    ELSE checkBlockTime(blk, par, clock)

ValidateBlockHeader(blk, par, clock) ==
    IF blk.Version < par.Version THEN errVersionRegression
    ELSE IF blk.Height # par.Height + 1 THEN errMisorderedBlockHeight
    ELSE IF blk.Bits # par.NextBits THEN errBadBits
    ELSE IF par.Hash # blk.PreviousBlockId THEN errMismatchedBlock
    ELSE checkBlockTime(blk, par, clock)

\* bc.TransactionStatus.SetStatus(i, gasOnly), called with i = 0, 1, 2, ...
SetStatus(ts, idx, gasOnly) ==
    IF idx = Len(ts.VerifyStatus)
    THEN [ts EXCEPT !.VerifyStatus = Append(@, gasOnly)]
    ELSE [ts EXCEPT !.VerifyStatus[idx + 1] = gasOnly]

Return(err) == pc' = "done" /\ result' = err

\* the ceiling test with >= for >
OverLimitInclusive(sum) == sum = MaxBlockGas \/ Gt64(sum, MaxBlockGas)

\* line 108: blockGasSum > consensus.MaxBlockGas
OverLimit(sum) == Gt64(sum, MaxBlockGas)

RECURSIVE ValidateTxs(_, _, _, _, _)
\* lines 98-111 from transaction k on, as a function: whether the loop
\* returned and with what error, the coinbase amount and the status it left
ValidateTxs(blk, k, gasSum, amount, status) ==
    IF k = Len(blk.Transactions)
    THEN [returned |-> FALSE, err |-> Nil, amount |-> amount, status |-> status]
    ELSE LET tx == blk.Transactions[k + 1]
             sum == Add64(gasSum, tx.GasUsed)
             marked == SetStatus(status, k, tx.err # "nil")
         IN  IF ~tx.GasValid
             THEN [returned |-> TRUE, err |-> Wrapf(tx.err, k, Len(blk.Transactions)),
                   amount |-> amount, status |-> status]
             ELSE IF OverLimit(sum)
             THEN [returned |-> TRUE, err |-> errOverBlockLimit,
                   amount |-> Add64(amount, tx.BTMValue), status |-> marked]
             ELSE ValidateTxs(blk, k + 1, sum, Add64(amount, tx.BTMValue), marked)

\* lines 75-133 as a function of the arguments and the clock: the returned
\* error and the TransactionStatus the block carries afterwards
ValidateBlock(blk, tblk, par, auth, clock) ==
    LET hexKey == Lookup(auth, blk.Proof.ControlProgram)
        xpub == CopyXPub(DecodeString(hexKey))
        loop == ValidateTxs(blk, 0, U64(0), BlockSubsidy(blk.Height),
                            [isNil |-> FALSE, VerifyStatus |-> <<>>])
        kept == blk.TransactionStatus
    IN  IF ValidateBlockHeader(blk, par, clock) # Nil
        THEN [err |-> ValidateBlockHeader(blk, par, clock), status |-> kept]
        ELSE IF DecodeError(hexKey) # "nil"
        THEN [err |-> Err(DecodeError(hexKey), "", -1, -1), status |-> kept]
        ELSE IF ~Verify(xpub, MarshalText(tblk), blk.Proof.Sign)
        THEN [err |-> errSignature, status |-> kept]
        ELSE IF loop.returned
        THEN [err |-> loop.err, status |-> loop.status]
        ELSE IF checkCoinbaseAmount(blk, loop.amount) # Nil
        THEN [err |-> checkCoinbaseAmount(blk, loop.amount), status |-> loop.status]
        ELSE IF TxMerkleRoot(blk.Transactions) # blk.TransactionsRoot
        THEN [err |-> errMismatchedMerkleRoot("transaction id merkle root"),
              status |-> loop.status]
        ELSE IF TxStatusMerkleRoot(loop.status.VerifyStatus) # blk.TransactionStatusHash
        THEN [err |-> errMismatchedMerkleRoot("transaction status merkle root"),
              status |-> loop.status]
        ELSE [err |-> Nil, status |-> loop.status]

(***************************************************************************)
(* ValidateBlock, stage by stage.                                          *)
(***************************************************************************)
\* the header stage with the new, empty status attached at entry
HeaderStageFreshStatus ==
    /\ pc = "header"
    /\ ran' = ran \cup {"header"}
    /\ headerErr' = ValidateBlockHeader(b, parent, now)
    /\ b' = [b EXCEPT !.TransactionStatus = [isNil |-> FALSE, VerifyStatus |-> <<>>]]
    /\ IF headerErr' # Nil
       THEN Return(headerErr')
       ELSE pc' = "proposer" /\ result' = result
    /\ UNCHANGED <<inputs, locals, validated, verified>>

\* lines 76-78
HeaderStage ==
    /\ pc = "header"
    /\ ran' = ran \cup {"header"}
    /\ headerErr' = ValidateBlockHeader(b, parent, now)
    /\ IF headerErr' # Nil
       THEN Return(headerErr')
       ELSE pc' = "proposer" /\ result' = result
    /\ UNCHANGED <<b, inputs, locals, validated, verified>>

\* the proposer stage with the result of xpub.Verify ignored
ProposerStageUnverified ==
    /\ pc = "proposer"
    /\ ran' = ran \cup {"proposer"}
    /\ LET hexKey == Lookup(authoritys, b.Proof.ControlProgram)
       IN  IF DecodeError(hexKey) # "nil"
           THEN Return(Err(DecodeError(hexKey), "", -1, -1)) /\ verified' = verified
           ELSE /\ verified' = Append(verified, CopyXPub(DecodeString(hexKey)))
                /\ pc' = "txinit" /\ result' = result
    /\ UNCHANGED <<b, inputs, headerErr, locals, validated>>

\* lines 80-92
ProposerStage ==
    /\ pc = "proposer"
    /\ ran' = ran \cup {"proposer"}
    /\ LET controlProgram == b.Proof.ControlProgram
           hexKey == Lookup(authoritys, controlProgram)
           xpub == CopyXPub(DecodeString(hexKey))
           msg == MarshalText(block)
           sign == b.Proof.Sign
       IN  IF DecodeError(hexKey) # "nil"
           THEN Return(Err(DecodeError(hexKey), "", -1, -1)) /\ verified' = verified
           ELSE /\ verified' = Append(verified, xpub)
                /\ IF ~Verify(xpub, msg, sign)
                   THEN Return(errSignature)
                   ELSE pc' = "txinit" /\ result' = result
    /\ UNCHANGED <<b, inputs, headerErr, locals, validated>>

\* the transaction stage with one status object for both calls in progress:
\* the new, empty status is attached to the other call's block as well
StartTransactionsSharedStatus ==
    /\ pc = "txinit"
    /\ ran' = ran \cup {"transactions"}
    /\ blockGasSum' = U64(0)
    /\ coinbaseAmount' = BlockSubsidy(b.Height)
    /\ b' = [b EXCEPT !.TransactionStatus = [isNil |-> FALSE, VerifyStatus |-> <<>>]]
    /\ other' = [other EXCEPT !.b.TransactionStatus = [isNil |-> FALSE, VerifyStatus |-> <<>>]]
    /\ i' = 0
    /\ pc' = IF Len(b.Transactions) = 0 THEN "coinbase" ELSE "txs"
    /\ UNCHANGED <<parent, block, authoritys, now, permuted, rerun, firstResult, prior, self,
                   result, headerErr, validated, verified>>

\* the transaction stage with the running coinbase amount started at zero
StartTransactionsNoSubsidy ==
    /\ pc = "txinit"
    /\ ran' = ran \cup {"transactions"}
    /\ blockGasSum' = U64(0)
    /\ coinbaseAmount' = U64(0)
    /\ b' = [b EXCEPT !.TransactionStatus = [isNil |-> FALSE, VerifyStatus |-> <<>>]]
    /\ i' = 0
    /\ pc' = IF Len(b.Transactions) = 0 THEN "coinbase" ELSE "txs"
    /\ UNCHANGED <<inputs, result, headerErr, validated, verified>>

\* lines 94-96 and the loop entry
StartTransactions ==
    /\ pc = "txinit"
    /\ ran' = ran \cup {"transactions"}
    /\ blockGasSum' = U64(0)
    /\ coinbaseAmount' = BlockSubsidy(b.Height)
    /\ b' = [b EXCEPT !.TransactionStatus = [isNil |-> FALSE, VerifyStatus |-> <<>>]]
    /\ i' = 0
    /\ pc' = IF Len(b.Transactions) = 0 THEN "coinbase" ELSE "txs"
    /\ UNCHANGED <<inputs, result, headerErr, validated, verified>>

\* lines 98-111: one iteration of the loop
TxStep ==
    /\ pc = "txs"
    /\ LET tx == b.Transactions[i + 1]
           n == Len(b.Transactions)
           sum == Add64(blockGasSum, tx.GasUsed)
       IN  /\ validated' = Append(validated, i)
           /\ IF ~tx.GasValid
              THEN /\ Return(Wrapf(tx.err, i, n))
                   /\ UNCHANGED <<b, locals>>
              ELSE /\ b' = [b EXCEPT !.TransactionStatus = SetStatus(@, i, tx.err # "nil")]
                   /\ coinbaseAmount' = Add64(coinbaseAmount, tx.BTMValue)
                   /\ blockGasSum' = sum
                   /\ IF OverLimit(sum)
                      THEN Return(errOverBlockLimit) /\ i' = i
                      ELSE /\ i' = i + 1
                           /\ pc' = IF i + 1 = n THEN "coinbase" ELSE "txs"
                           /\ result' = result
    /\ UNCHANGED <<inputs, headerErr, verified, ran>>

\* lines 113-115
CoinbaseStage ==
    /\ pc = "coinbase"
    /\ ran' = ran \cup {"coinbase"}
    /\ IF checkCoinbaseAmount(b, coinbaseAmount) # Nil
       THEN Return(checkCoinbaseAmount(b, coinbaseAmount))
       ELSE pc' = "txroot" /\ result' = result
    /\ UNCHANGED <<b, inputs, headerErr, locals, validated, verified>>

\* the transaction-id root recomputed but never compared
TxRootStageUncompared ==
    /\ pc = "txroot"
    /\ ran' = ran \cup {"txroot"}
    /\ pc' = "statusroot" /\ result' = result
    /\ UNCHANGED <<b, inputs, headerErr, locals, validated, verified>>

\* lines 117-123
TxRootStage ==
    /\ pc = "txroot"
    /\ ran' = ran \cup {"txroot"}
    /\ IF TxMerkleRoot(b.Transactions) # b.TransactionsRoot
       THEN Return(errMismatchedMerkleRoot("transaction id merkle root"))
       ELSE pc' = "statusroot" /\ result' = result
    /\ UNCHANGED <<b, inputs, headerErr, locals, validated, verified>>

\* lines 125-132
StatusRootStage ==
    /\ pc = "statusroot"
    /\ ran' = ran \cup {"statusroot"}
    /\ IF TxStatusMerkleRoot(b.TransactionStatus.VerifyStatus) # b.TransactionStatusHash
       THEN Return(errMismatchedMerkleRoot("transaction status merkle root"))
       ELSE Return(Nil)
    /\ UNCHANGED <<b, inputs, headerErr, locals, validated, verified>>

\* The caller submits an accepted block again with its transaction list in
\* another order: the header, and so both commitments, are kept; the
\* types.Block is the reordered block; the proposer signs the reordered
\* block or the old signature is kept.
Orders(n) == { p \in [1..n -> 1..n] : \A x, y \in 1..n : p[x] = p[y] => x = y }

SubmitPermuted ==
    /\ pc = "done"
    /\ result = Nil
    /\ ~permuted
    /\ ~rerun
    /\ \E p \in Orders(Len(b.Transactions)) :
         LET txs == [k \in 1..Len(b.Transactions) |-> b.Transactions[p[k]]]
             blk == TypesBlock(b, txs)
         IN  /\ txs # b.Transactions
             /\ block' = blk
             /\ \E sg \in {b.Proof.Sign, Signature(b.Proof.Sign.key, MarshalText(blk), FALSE)} :
                  b' = [b EXCEPT !.Transactions = txs, !.Proof.Sign = sg]
    /\ permuted' = TRUE
    /\ pc' = "header"
    /\ result' = Nil
    /\ headerErr' = Nil
    /\ i' = 0
    /\ blockGasSum' = U64(0)
    /\ coinbaseAmount' = U64(0)
    /\ validated' = <<>>
    /\ verified' = <<>>
    /\ ran' = {}
    /\ prior' = b.TransactionStatus
    /\ UNCHANGED <<parent, authoritys, now, rerun, firstResult, self, other>>

\* the moments of a later call: the same second or the next one
LaterClocks(clock) == {clock, clock + 1}

\* The caller runs ValidateBlock again on the block it has just validated,
\* with the same parent, types.Block and registry, at a later moment; the
\* block carries the status the first run left attached.
Rerun ==
    /\ pc = "done"
    /\ ~permuted
    /\ ~rerun
    /\ rerun' = TRUE
    /\ firstResult' = result
    /\ prior' = b.TransactionStatus
    /\ now' \in LaterClocks(now)
    /\ pc' = "header"
    /\ result' = Nil
    /\ headerErr' = Nil
    /\ i' = 0
    /\ blockGasSum' = U64(0)
    /\ coinbaseAmount' = U64(0)
    /\ validated' = <<>>
    /\ verified' = <<>>
    /\ ran' = {}
    /\ UNCHANGED <<b, parent, block, authoritys, permuted, self, other>>

Next ==
    \/ SubmitPermuted
    \/ Rerun
    \/ HeaderStage
    \/ ProposerStage
    \/ StartTransactions
    \/ TxStep
    \/ CoinbaseStage
    \/ TxRootStage
    \/ StatusRootStage

Spec == Init /\ [][Next]_vars

(***************************************************************************)
(* Two concurrent calls of ValidateBlock on different candidates for the   *)
(* same parent, with the same registry.  A step of the system is a step of *)
(* one of the calls; Switch passes the processor from one call to the      *)
(* other, at any point between two steps.                                  *)
(***************************************************************************)
\* sibling candidates: accepted ones, and one rejected at each stage
Siblings ==
    LET good == Tx(1, TRUE, "nil", U64(0), U64(0), TRUE, Subsidy)
        paid == Tx(2, TRUE, "nil", U64(0), U64(0), TRUE, Add64(Subsidy, U64(1)))
        failed == Tx(4, TRUE, "ErrTx", U64(1), U64(1), TRUE, Subsidy)
        invalid == Tx(5, FALSE, "ErrTx", U64(0), U64(0), TRUE, Subsidy)
        withFailed == [k \in 1..MaxTxs |-> IF k = 1 THEN paid ELSE failed]
        withInvalid == [k \in 1..MaxTxs |-> IF k = MaxTxs THEN invalid ELSE good]
        proof(txs) == GoodProof(MarshalText(TypesBlock(GoodHeader, txs)))
        late == [GoodHeader EXCEPT !.Timestamp = Parent.PastMedianTime]
    IN  { Block(GoodHeader, proof(GoodTxs), GoodRoots(GoodTxs), GoodTxs),
          Block(GoodHeader, proof(withFailed), GoodRoots(withFailed), withFailed),
          Block(GoodHeader, proof(withFailed),
                [GoodRoots(withFailed) EXCEPT !.TransactionStatusHash = BadHash], withFailed),
          Block(GoodHeader, proof(withInvalid), GoodRoots(withInvalid), withInvalid),
          Block(GoodHeader, proof(<<>>), GoodRoots(<<>>), <<>>),
          Block(GoodHeader, [proof(GoodTxs) EXCEPT !.Sign.flipped = TRUE],
                GoodRoots(GoodTxs), GoodTxs),
          Block(late, GoodProof(MarshalText(TypesBlock(late, GoodTxs))),
                GoodRoots(GoodTxs), GoodTxs) }

InitConcurrent ==
    /\ \E b1, b2 \in Siblings :
          /\ b1 # b2
          /\ b = b1
          /\ other = StartCall(b2)
    /\ self = 1
    /\ parent = Parent
    /\ block = TypesBlock(b, b.Transactions)
    /\ authoritys = Authoritys
    /\ now = Clock
    /\ pc = "header"
    /\ result = Nil
    /\ headerErr = Nil
    /\ i = 0
    /\ blockGasSum = U64(0)
    /\ coinbaseAmount = U64(0)
    /\ validated = <<>>
    /\ verified = <<>>
    /\ ran = {}
    /\ permuted = FALSE
    /\ rerun = FALSE
    /\ firstResult = Nil
    /\ prior = b.TransactionStatus

\* the variables of the running call
Running ==
    [b |-> b, block |-> block, pc |-> pc, result |-> result, headerErr |-> headerErr,
     i |-> i, blockGasSum |-> blockGasSum, coinbaseAmount |-> coinbaseAmount,
     validated |-> validated, verified |-> verified, ran |-> ran, prior |-> prior]

Switch ==
    /\ other.pc # "none"
    /\ self' = 3 - self
    /\ other' = Running
    /\ b' = other.b
    /\ block' = other.block
    /\ pc' = other.pc
    /\ result' = other.result
    /\ headerErr' = other.headerErr
    /\ i' = other.i
    /\ blockGasSum' = other.blockGasSum
    /\ coinbaseAmount' = other.coinbaseAmount
    /\ validated' = other.validated
    /\ verified' = other.verified
    /\ ran' = other.ran
    /\ prior' = other.prior
    /\ UNCHANGED <<parent, authoritys, now, permuted, rerun, firstResult>>

NextConcurrent ==
    \/ Switch
    \/ HeaderStage
    \/ ProposerStage
    \/ StartTransactions
    \/ TxStep
    \/ CoinbaseStage
    \/ TxRootStage
    \/ StatusRootStage

SpecConcurrent == InitConcurrent /\ [][NextConcurrent]_vars

(***************************************************************************)
(* Vocabulary of the properties.  Sums here are mathematical (five limbs,  *)
(* nothing dropped), independent of the accumulators of the code.          *)
(***************************************************************************)
RECURSIVE FeeTotal(_, _)
\* subsidy(height) + the fee contributions of the first k transactions
FeeTotal(blk, k) ==
    IF k = 0 THEN Wide(BlockSubsidy(blk.Height))
    ELSE AddWide(FeeTotal(blk, k - 1), blk.Transactions[k].BTMValue)

RECURSIVE GasTotal(_, _)
\* the gas used by the first k transactions
GasTotal(blk, k) ==
    IF k = 0 THEN Wide(U64(0))
    ELSE AddWide(GasTotal(blk, k - 1), blk.Transactions[k].GasUsed)

OverCeiling(w) == w[5] > 0 \/ Gt64(<<w[1], w[2], w[3], w[4]>>, MaxBlockGas)

NumTxs == Len(b.Transactions)

AllGasValid == \A k \in 1..NumTxs : b.Transactions[k].GasValid

Done == pc = "done"

Accepted == Done /\ result = Nil

LaterStages == {"coinbase", "txroot", "statusroot"}

HeaderOk ==
    /\ b.Version >= parent.Version
    /\ b.Height = parent.Height + 1
    /\ b.Bits = parent.NextBits
    /\ b.PreviousBlockId = parent.Hash
    /\ b.Timestamp <= now + MaxTimeOffsetSeconds
    /\ b.Timestamp > parent.PastMedianTime

\* the registry holds a well-formed key for the block's control program
RegisteredKey ==
    /\ b.Proof.ControlProgram \in DOMAIN authoritys
    /\ DecodeError(authoritys[b.Proof.ControlProgram]) = "nil"
    /\ Len(DecodeString(authoritys[b.Proof.ControlProgram])) = XPubSize

SignatureOk ==
    /\ RegisteredKey
    /\ Verify(DecodeString(authoritys[b.Proof.ControlProgram]), MarshalText(block), b.Proof.Sign)

(***************************************************************************)
(* C9.  A block whose version is below the parent's makes                  *)
(* ValidateBlockHeader return errVersionRegression, whatever its height,   *)
(* bits, previous block id and timestamp are.                              *)
(***************************************************************************)
C9_VersionRegression ==
    ("header" \in ran /\ b.Version < parent.Version)
        => headerErr.kind = "errVersionRegression"

C9_Witness ==
    /\ "header" \in ran
    /\ b.Version < parent.Version
    /\ b.Height # parent.Height + 1
    /\ b.Bits # parent.NextBits
    /\ b.PreviousBlockId # parent.Hash
    /\ b.Timestamp <= parent.PastMedianTime
    /\ headerErr.kind = "errVersionRegression"

(***************************************************************************)
(* C10.  As claimed: a block whose height is not the parent's plus one     *)
(* makes ValidateBlockHeader return errMisorderedBlockHeight, whatever the *)
(* other header fields are.                                                *)
(***************************************************************************)
C10_Original ==
    ("header" \in ran /\ b.Height # parent.Height + 1)
        => headerErr.kind = "errMisorderedBlockHeight"

\* C10 as amended: the height error is returned when the version check,
\* which comes first, passes; whatever bits, previous id and timestamp are.
C10_MisorderedHeight ==
    ("header" \in ran /\ b.Version >= parent.Version /\ b.Height # parent.Height + 1)
        => headerErr.kind = "errMisorderedBlockHeight"

C10_Witness ==
    /\ "header" \in ran
    /\ b.Version >= parent.Version
    /\ b.Height # parent.Height + 1
    /\ b.Bits # parent.NextBits
    /\ b.PreviousBlockId # parent.Hash
    /\ b.Timestamp <= parent.PastMedianTime
    /\ headerErr.kind = "errMisorderedBlockHeight"

(***************************************************************************)
(* C5.  With a header that passes and a well-formed key registered for the *)
(* control program: if Verify(key, canonical encoding, signature) holds    *)
(* the run goes on to transaction validation; if not, it returns the       *)
(* signature error and no transaction is handed to ValidateTx.             *)
(***************************************************************************)
C5_Authentication ==
    ("proposer" \in ran /\ RegisteredKey) =>
        IF SignatureOk
        THEN pc = "txinit" \/ "transactions" \in ran
        ELSE Done /\ result = errSignature /\ validated = <<>>
                  /\ "transactions" \notin ran

C5_Witness ==
    /\ "proposer" \in ran
    /\ RegisteredKey
    /\ b.Proof.Sign.key = DecodeString(authoritys[b.Proof.ControlProgram])
    /\ b.Proof.Sign.flipped
    /\ Done
    /\ result = errSignature
    /\ validated = <<>>

(***************************************************************************)
(* C6.  When the gas used by the transactions sums to more than the        *)
(* ceiling and every transaction up to the one that crosses it is          *)
(* gas-valid, the run returns errOverBlockLimit at the first index k where *)
(* the running total exceeds the ceiling: no transaction after k is        *)
(* validated and neither the coinbase nor the merkle checks run.           *)
(***************************************************************************)
\* the first position (from 1) at which the running gas total is over the ceiling
FirstCrossing ==
    CHOOSE k \in 1..NumTxs :
        /\ OverCeiling(GasTotal(b, k))
        /\ \A j \in 1..(k - 1) : ~OverCeiling(GasTotal(b, j))

C6_Case ==
    /\ "transactions" \in ran
    /\ OverCeiling(GasTotal(b, NumTxs))
    /\ \A j \in 1..FirstCrossing : b.Transactions[j].GasValid

C6_OverBlockGasLimit ==
    C6_Case =>
        /\ \A j \in 1..Len(validated) : validated[j] <= FirstCrossing - 1
        /\ ran \cap LaterStages = {}
        /\ Done => /\ result = errOverBlockLimit
                   /\ validated = [j \in 1..FirstCrossing |-> j - 1]
        /\ ~Done => pc = "txs"

C6_Witness ==
    /\ C6_Case
    /\ Done
    /\ result = errOverBlockLimit
    /\ Len(validated) < NumTxs

(***************************************************************************)
(* C8.  Once the coinbase stage has passed: a recomputed transaction-id    *)
(* root that differs from the header's gives errMismatchedMerkleRoot       *)
(* tagged with the transaction id root; otherwise a differing root of the  *)
(* status built in this run gives the error tagged with the status root;   *)
(* the transaction-id root is always compared first.                       *)
(***************************************************************************)
C8_MerkleRoots ==
    /\ "statusroot" \in ran =>
           "txroot" \in ran /\ TxMerkleRoot(b.Transactions) = b.TransactionsRoot
    /\ ("txroot" \in ran /\ TxMerkleRoot(b.Transactions) # b.TransactionsRoot) =>
           /\ Done
           /\ result = errMismatchedMerkleRoot("transaction id merkle root")
           /\ "statusroot" \notin ran
    /\ ("txroot" \in ran /\ TxMerkleRoot(b.Transactions) = b.TransactionsRoot
            /\ TxStatusMerkleRoot(b.TransactionStatus.VerifyStatus) # b.TransactionStatusHash) =>
           \/ pc = "statusroot"
           \/ Done /\ result = errMismatchedMerkleRoot("transaction status merkle root")

C8_Witness ==
    /\ "txroot" \in ran
    /\ TxMerkleRoot(b.Transactions) # b.TransactionsRoot
    /\ TxStatusMerkleRoot(b.TransactionStatus.VerifyStatus) # b.TransactionStatusHash
    /\ Done
    /\ result = errMismatchedMerkleRoot("transaction id merkle root")

(***************************************************************************)
(* C1.  As claimed: whenever ValidateBlock returns success, every          *)
(* admission condition holds: the header conditions, a signature that      *)
(* verifies under the key registered for the control program, every        *)
(* transaction gas-valid, total gas within the ceiling, a coinbase output  *)
(* equal to subsidy(height) plus the fee contributions, and both merkle    *)
(* roots equal to the header's commitments.                                *)
(***************************************************************************)
C1_Original ==
    Accepted =>
        /\ HeaderOk
        /\ SignatureOk
        /\ AllGasValid
        /\ ~OverCeiling(GasTotal(b, NumTxs))
        /\ NumTxs >= 1
        /\ b.Transactions[1].out.ok
        /\ Wide(b.Transactions[1].out.amount) = FeeTotal(b, NumTxs)
        /\ TxMerkleRoot(b.Transactions) = b.TransactionsRoot
        /\ TxStatusMerkleRoot(StatusOf(b.Transactions)) = b.TransactionStatusHash

(***************************************************************************)
(* C2.  As claimed: when the transaction at index i is not gas-valid (all  *)
(* earlier ones valid and under the ceiling), the run ends at once in a    *)
(* failure annotated with (i, transaction count), whether or not           *)
(* ValidateTx gave an error; nothing is validated after i and neither the  *)
(* coinbase nor the merkle checks run.                                     *)
(***************************************************************************)
C2_Original ==
    (Len(validated) >= 1 /\ ~b.Transactions[validated[Len(validated)] + 1].GasValid) =>
        /\ Done
        /\ result # Nil
        /\ result.idx = validated[Len(validated)]
        /\ result.total = NumTxs
        /\ ran \cap LaterStages = {}

(***************************************************************************)
(* C3.  As claimed: for a block past the transaction stage with at least   *)
(* one transaction, a coinbase output that differs from subsidy(height)    *)
(* plus the sum of all fee contributions, taken as true integers, makes    *)
(* the run fail with ErrWrongCoinbaseTransaction.                          *)
(***************************************************************************)
C3_Original ==
    ( /\ "coinbase" \in ran
      /\ NumTxs >= 1
      /\ b.Transactions[1].out.ok
      /\ Wide(b.Transactions[1].out.amount) # FeeTotal(b, NumTxs) ) =>
        Done /\ result.kind = "ErrWrongCoinbaseTransaction"

(***************************************************************************)
(* C4.  As claimed: when the registry has no entry for the control         *)
(* program, or a malformed one, the run fails with a key-decoding error,   *)
(* not the signature error, and Verify is never called with a key the      *)
(* registry did not supply.                                                *)
(***************************************************************************)
C4_Original ==
    /\ ("proposer" \in ran /\ ~RegisteredKey) =>
           /\ Done
           /\ result.kind \in {"hex.InvalidByteError", "hex.ErrLength"}
    /\ \A k \in 1..Len(verified) :
           RegisteredKey /\ verified[k] = DecodeString(authoritys[b.Proof.ControlProgram])

(***************************************************************************)
(* C7.  As claimed: an accepted block, submitted again with its            *)
(* transactions in another order under the unchanged header, fails with    *)
(* errMismatchedMerkleRoot, also when the coinbase leaves index 0.  The    *)
(* claim is read in its favour: the reordered block is validly signed and  *)
(* all its transactions are gas-valid.                                     *)
(***************************************************************************)
C7_Original ==
    (permuted /\ Done /\ SignatureOk /\ AllGasValid) =>
        result = errMismatchedMerkleRoot("transaction id merkle root")

\* the 64-bit total the transaction loop hands to checkCoinbaseAmount
Low64(w) == <<w[1], w[2], w[3], w[4]>>

\* C7 as amended: such a reordered block, all of whose transactions are
\* gas-valid, is never accepted; its error is that of the first stage that
\* fails: the signature error when the signature does not verify for the
\* reordered block, the coinbase stage's error when the transaction now
\* first does not pay the total, and otherwise errMismatchedMerkleRoot
\* tagged with the transaction id root.
C7_PermutedRejected ==
    (permuted /\ Done /\ AllGasValid) =>
        result =
            IF ~SignatureOk THEN errSignature
            ELSE IF ~b.Transactions[1].out.ok THEN errOutputEntry
            ELSE IF b.Transactions[1].out.amount # Low64(FeeTotal(b, NumTxs))
                 THEN ErrWrongCoinbaseTransaction("dismatch output amount")
            ELSE errMismatchedMerkleRoot("transaction id merkle root")

C7_Witness ==
    /\ permuted
    /\ Done
    /\ AllGasValid
    /\ SignatureOk
    /\ "coinbase" \in ran
    /\ result = errMismatchedMerkleRoot("transaction id merkle root")

(***************************************************************************)
(* C11.  As claimed: a block whose timestamp is not after the parent's     *)
(* past median time, or is more than MaxTimeOffsetSeconds ahead of the     *)
(* clock, makes ValidateBlockHeader return errBadTimestamp, the same error *)
(* for both.                                                               *)
(***************************************************************************)
TimestampBad ==
    \/ b.Timestamp <= parent.PastMedianTime
    \/ b.Timestamp > now + MaxTimeOffsetSeconds

LinkageOk ==
    /\ b.Version >= parent.Version
    /\ b.Height = parent.Height + 1
    /\ b.Bits = parent.NextBits
    /\ b.PreviousBlockId = parent.Hash

C11_Original ==
    ("header" \in ran /\ TimestampBad) => headerErr = errBadTimestamp

\* C11 as amended: both timestamp violations give errBadTimestamp when the
\* version, height, bits and previous-block-id checks, which come first, pass.
C11_BadTimestamp ==
    ("header" \in ran /\ LinkageOk /\ TimestampBad) => headerErr = errBadTimestamp

C11_Witness ==
    /\ "header" \in ran
    /\ LinkageOk
    /\ b.Timestamp = parent.PastMedianTime
    /\ headerErr = errBadTimestamp
    /\ Done
    /\ result = errBadTimestamp

(***************************************************************************)
(* C12.  As claimed: a second run of ValidateBlock on the same block,      *)
(* parent, canonical encoding and registry, at any later moment of the     *)
(* wall clock, ends with the result of the first run and leaves the same   *)
(* TransactionStatus attached.                                             *)
(***************************************************************************)
C12_Original ==
    (rerun /\ Done) => (result = firstResult /\ b.TransactionStatus = prior)

\* line 27 at the moment of the first run and at the moment of the second
SameDrift ==
    (b.Timestamp > Clock + MaxTimeOffsetSeconds) = (b.Timestamp > now + MaxTimeOffsetSeconds)

\* C12 as amended: the second run repeats the result and the status of the
\* first when the block's timestamp is on the same side of "now plus the
\* allowed offset" at both moments.
C12_Idempotent ==
    (rerun /\ Done /\ SameDrift) => (result = firstResult /\ b.TransactionStatus = prior)

C12_Witness ==
    /\ rerun
    /\ Done
    /\ now = Clock + 1
    /\ b.Timestamp = Clock + MaxTimeOffsetSeconds
    /\ firstResult = Nil
    /\ result = Nil
    /\ NumTxs > 0
    /\ b.TransactionStatus = prior
    /\ Len(prior.VerifyStatus) = NumTxs

(***************************************************************************)
(* C13.  ValidateBlock runs its stages in the order header, proposer,      *)
(* transactions, coinbase, merkle roots: a stage has run only if every     *)
(* earlier one has; a run that ended with an error ran no stage after the  *)
(* one that produced the error; a run that ended with success has run all  *)
(* of them.                                                                *)
(***************************************************************************)
StageOrder == <<"header", "proposer", "transactions", "coinbase", "txroot", "statusroot">>

\* the error kinds each stage can end the run with
StageErrors(stage) ==
    CASE stage = "header" -> {"errVersionRegression", "errMisorderedBlockHeight", "errBadBits",
                              "errMismatchedBlock", "errBadTimestamp"}
      [] stage = "proposer" -> {"hex.InvalidByteError", "hex.ErrLength", errSignature.kind}
      [] stage = "transactions" -> {"ErrTx", "errOverBlockLimit"}
      [] stage = "coinbase" -> {"ErrWrongCoinbaseTransaction", errOutputEntry.kind}
      [] stage = "txroot" -> {"errMismatchedMerkleRoot"}
      [] stage = "statusroot" -> {"errMismatchedMerkleRoot"}

C13_Original ==
    /\ \A k \in 2..Len(StageOrder) : StageOrder[k] \in ran => StageOrder[k - 1] \in ran
    /\ (Done /\ result # Nil) =>
          \E k \in 1..Len(StageOrder) :
             /\ StageOrder[k] \in ran
             /\ \A j \in (k + 1)..Len(StageOrder) : StageOrder[j] \notin ran
             /\ result.kind \in StageErrors(StageOrder[k])
    /\ Accepted => \A k \in 1..Len(StageOrder) : StageOrder[k] \in ran

(***************************************************************************)
(* C14.  Whenever ValidateBlock returns success, the TransactionStatus     *)
(* attached to the block has one entry per transaction of the block, and   *)
(* entry i is true exactly when ValidateTx returned an error for           *)
(* transaction i with gasStatus.GasValid true.                             *)
(***************************************************************************)
C14_Original ==
    Accepted =>
        /\ ~b.TransactionStatus.isNil
        /\ Len(b.TransactionStatus.VerifyStatus) = NumTxs
        /\ \A k \in 1..NumTxs :
              b.TransactionStatus.VerifyStatus[k]
                  = (b.Transactions[k].GasValid /\ b.Transactions[k].err # "nil")

(***************************************************************************)
(* C15.  A block without transactions is never accepted: once it has       *)
(* passed the header and proposer stages no transaction is validated, the  *)
(* coinbase check is the next to decide and the run ends with              *)
(* ErrWrongCoinbaseTransaction, "block is empty".                          *)
(***************************************************************************)
C15_EmptyBlock ==
    NumTxs = 0 =>
        /\ ~Accepted
        /\ validated = <<>>
        /\ "transactions" \in ran =>
              \/ pc = "coinbase"
              \/ Done /\ result = ErrWrongCoinbaseTransaction("block is empty")

C15_Witness ==
    /\ NumTxs = 0
    /\ ran = {"header", "proposer", "transactions", "coinbase"}
    /\ b.TransactionsRoot = TxMerkleRoot(<<>>)
    /\ b.TransactionStatusHash = TxStatusMerkleRoot(<<>>)
    /\ Done
    /\ result = ErrWrongCoinbaseTransaction("block is empty")

(***************************************************************************)
(* C16.  End to end: the parent is at height 100; the block is at height   *)
(* 101 with a version, bits, previous block id and timestamp that pass the *)
(* header check; it holds exactly one transaction, the coinbase, which     *)
(* ValidateTx passes without an error and without a fee and whose output   *)
(* pays subsidy(101); the signature verifies under the key registered for  *)
(* the control program; both commitments are the recomputed roots.  Then   *)
(* ValidateBlock returns success and the block carries a TransactionStatus *)
(* of length 1 with value [false].                                         *)
(***************************************************************************)
C16_Case ==
    /\ parent.Height = 100
    /\ b.Height = 101
    /\ HeaderOk
    /\ SignatureOk
    /\ NumTxs = 1
    /\ b.Transactions[1].GasValid
    /\ b.Transactions[1].err = "nil"
    /\ b.Transactions[1].BTMValue = U64(0)
    /\ ~OverCeiling(Wide(b.Transactions[1].GasUsed))
    /\ b.Transactions[1].out.ok
    /\ b.Transactions[1].out.amount = BlockSubsidy(101)
    /\ b.TransactionsRoot = TxMerkleRoot(b.Transactions)
    /\ b.TransactionStatusHash = TxStatusMerkleRoot(<<FALSE>>)

C16_EndToEnd ==
    (C16_Case /\ Done) =>
        /\ result = Nil
        /\ b.TransactionStatus = [isNil |-> FALSE, VerifyStatus |-> <<FALSE>>]
        /\ ran = {"header", "proposer", "transactions", "coinbase", "txroot", "statusroot"}

C16_Witness ==
    /\ C16_Case
    /\ ~rerun
    /\ Done
    /\ result = Nil
    /\ prior = NilStatus
    /\ b.TransactionStatus = [isNil |-> FALSE, VerifyStatus |-> <<FALSE>>]

(***************************************************************************)
(* C17.  Two calls of ValidateBlock on different blocks, with the same     *)
(* parent and registry, their steps interleaved in any way: the parent and *)
(* the registry stay as they were; each call that has returned has the     *)
(* result, and its block the TransactionStatus, of the same call running   *)
(* alone; and a block's status is as it was at entry until its own call    *)
(* reaches the transaction stage.                                          *)
(***************************************************************************)
\* what the call with variables c returns, and leaves attached, run alone
Alone(c) ==
    ValidateBlock([c.b EXCEPT !.TransactionStatus = c.prior], c.block,
                  Parent, Authoritys, Clock)

C17_Isolation ==
    /\ parent = Parent
    /\ authoritys = Authoritys
    /\ \A c \in {Running, other} :
          /\ c.pc = "done" =>
                /\ c.result = Alone(c).err
                /\ c.b.TransactionStatus = Alone(c).status
          /\ "transactions" \notin c.ran => c.b.TransactionStatus = c.prior

C17_Witness ==
    /\ self = 1
    /\ Done
    /\ result = Nil
    /\ Len(b.TransactionStatus.VerifyStatus) = MaxTxs
    /\ b.TransactionStatus = Alone(Running).status
    /\ other.pc = "txs"
    /\ other.i > 0
    /\ other.b.TransactionStatus.VerifyStatus = <<FALSE>>

(***************************************************************************)
(* C18.  ValidateBlockHeader returns the error of the first condition that *)
(* is violated, in the order version, height, bits, previous block id,     *)
(* timestamp (both timestamp tests give errBadTimestamp), and success when *)
(* none is; when it fails, ValidateBlock returns that error as it is and   *)
(* runs nothing else.                                                      *)
(***************************************************************************)
VersionOk == b.Version >= parent.Version

HeightOk == b.Height = parent.Height + 1

BitsOk == b.Bits = parent.NextBits

PreviousOk == b.PreviousBlockId = parent.Hash

C18_FirstViolation ==
    "header" \in ran =>
        /\ headerErr = errVersionRegression <=> ~VersionOk
        /\ headerErr = errMisorderedBlockHeight <=> (VersionOk /\ ~HeightOk)
        /\ headerErr = errBadBits <=> (VersionOk /\ HeightOk /\ ~BitsOk)
        /\ headerErr = errMismatchedBlock <=> (VersionOk /\ HeightOk /\ BitsOk /\ ~PreviousOk)
        /\ headerErr = errBadTimestamp
              <=> (VersionOk /\ HeightOk /\ BitsOk /\ PreviousOk /\ TimestampBad)
        /\ headerErr = Nil
              <=> (VersionOk /\ HeightOk /\ BitsOk /\ PreviousOk /\ ~TimestampBad)
        /\ headerErr # Nil => (Done /\ result = headerErr /\ ran = {"header"})

C18_Witness ==
    /\ "header" \in ran
    /\ VersionOk
    /\ HeightOk
    /\ ~BitsOk
    /\ ~PreviousOk
    /\ TimestampBad
    /\ headerErr = errBadBits
    /\ Done
    /\ result = errBadBits

(***************************************************************************)
(* C19.  As claimed: a run of ValidateBlock that rejects the block, at any *)
(* stage, leaves the TransactionStatus the block carried at entry in       *)
(* place.                                                                  *)
(***************************************************************************)
C19_Original ==
    (Done /\ result # Nil) => b.TransactionStatus = prior

\* the transactions handed to ValidateTx so far that came back gas-valid
Marked == { k \in 1..Len(validated) : b.Transactions[k].GasValid }

\* C19 as amended: a run rejected by the header or the proposer stage leaves
\* the status in place; from the start of the transaction stage on, accepted
\* or rejected, the block carries a new status with one entry for each
\* transaction that came back gas-valid, in order.
C19_StatusFrame ==
    /\ "transactions" \notin ran => b.TransactionStatus = prior
    /\ "transactions" \in ran =>
          /\ ~b.TransactionStatus.isNil
          /\ Len(b.TransactionStatus.VerifyStatus) = Cardinality(Marked)
          /\ \A k \in 1..Len(b.TransactionStatus.VerifyStatus) :
                b.TransactionStatus.VerifyStatus[k] = (b.Transactions[k].err # "nil")

C19_Witness ==
    /\ Done
    /\ result = errSignature
    /\ "transactions" \notin ran
    /\ ~prior.isNil
    /\ Len(prior.VerifyStatus) = MaxTxs
    /\ b.TransactionStatus = prior

====
